---- MODULE Spec2Model ----
(***************************************************************************)
(* The data-preparation cells of sagemaker_predictive_maintenance.ipynb:   *)
(* the train cell (normalize every train_FD00i.txt, then label it with     *)
(* RUL) and the test cell (label every test_FD00i.txt with the help of     *)
(* RUL_FD00i.txt, then normalize it).                                      *)
(*                                                                         *)
(* A DataFrame is a sequence of rows; a row is a record whose fields are   *)
(* the frame's columns.  The 24 channel columns columns[2:] are handled by *)
(* one column-wise broadcast expression, so a row carries them in one      *)
(* field s, a function from the channel names to values, and the model     *)
(* carries the channel names of Channels.  The id, the cycle and the raw   *)
(* readings are integers; a computed column (a normalized reading, max,    *)
(* RUL_end, RUL) holds floats, each NaN or an exact quotient n / d.        *)
(***************************************************************************)
EXTENDS Integers, Sequences, FiniteSets, Bags, TLC

VARIABLES
    files,      \* the data folder: file name -> content, set by the download
    pc,         \* the notebook's position: the loop being run, or its end
    i,          \* the running loop's variable i (range(1,5) / enumerate + 1)
    train_df,   \* the list train_df
    test_df,    \* the list test_df
    err         \* the exception that ended the run, or NoError

vars == <<files, pc, i, train_df, test_df, err>>

----------------------------------------------------------------------------
(* Bounds of the input space. *)

\* rows of a dataset file whose content varies
MaxRows == 2

\* run ids, cycle indexes, raw channel readings and true-RUL values that
\* the varying files draw from
Ids == {1, 2}
Cycles == {1, 2}
Values == {0, 1}
RulValues == {0, 3}

\* the channel columns the model carries, of columns[2:]
Channels == {"setting1", "s1"}

\* the readings of one row of a varying file: not all of them 0
ChannelRows == [Channels -> Values] \ {[c \in Channels |-> 0]}

\* the variants whose files vary
VaryingVariants == {2}

----------------------------------------------------------------------------
(* Program constants. *)

\* for i in range(1,5)
NumDatasets == 4

\* eps = 0.000001, as the quotient 1 / EpsInv
EpsInv == 1000000

\* pd.read_csv(..., delimiter=' ') of a line that ends in two blanks yields
\* 26 data columns and the columns 26 and 27, which the cells drop
RawCols == 28

\* the RUL files' lines end in one blank: the value and column 1
RulCols == 2

NoError == [kind |-> "none", cell |-> "none", variant |-> 0]

\* a float: missing (NaN), or the exact quotient n / d
Quot(n, d) == [na |-> FALSE, n |-> n, d |-> d]

Num(n) == Quot(n, 1)

NaN == [na |-> TRUE, n |-> 0, d |-> 1]

\* len(columns): id, cycle, setting1..3, s1..s21
NumColumns == 26

----------------------------------------------------------------------------
(* pandas, as far as the two cells use it. *)

\* float arithmetic with NaN: a missing operand makes the result missing
\* (the operands are whole numbers: d = 1)
Add(a, b) == IF a.na \/ b.na THEN NaN ELSE Num(a.n + b.n)

Sub(a, b) == IF a.na \/ b.na THEN NaN ELSE Num(a.n - b.n)

\* ColMin, were the minimum taken over the whole frame (df.min().min())
ColMinAnyChannel(df, c) ==
    LET all == {df[k].s[b] : k \in 1..Len(df), b \in Channels}
    IN  CHOOSE x \in all : \A y \in all : x <= y

\* df[c].min() of a channel column: a reduction over all rows of the frame
ColMin(df, c) ==
    LET m[k \in 1..Len(df)] ==
            IF k = 1 THEN df[1].s[c]
            ELSE IF df[k].s[c] < m[k - 1] THEN df[k].s[c] ELSE m[k - 1]
    IN  m[Len(df)]

\* df[c].max() of a channel column
ColMax(df, c) ==
    LET m[k \in 1..Len(df)] ==
            IF k = 1 THEN df[1].s[c]
            ELSE IF df[k].s[c] > m[k - 1] THEN df[k].s[c] ELSE m[k - 1]
    IN  m[Len(df)]

\* Scale, were eps added to the denominator only
ScaleEpsBelow(v, lo, hi) == Quot((v - lo) * EpsInv, (hi - lo) * EpsInv + 1)

\* (v - min + eps) / (max - min + eps) with eps = 1 / EpsInv, exactly:
\* numerator and denominator are both multiplied by EpsInv
Scale(v, lo, hi) == Quot((v - lo) * EpsInv + 1, (hi - lo) * EpsInv + 1)

\* Normalize, were the frame's own columns from position 2 on normalized
\* (df.columns[2:]): the channels and, where the frame has it, RUL
NormalizeFrameColumns(df) ==
    LET vals == {df[k].RUL.n : k \in {m \in 1..Len(df) : ~df[m].RUL.na}}
        lo == CHOOSE x \in vals : \A y \in vals : x <= y
        hi == CHOOSE x \in vals : \A y \in vals : y <= x
    IN  [k \in 1..Len(df) |->
            [f \in DOMAIN df[k] |->
                IF f = "s"
                THEN [c \in Channels |->
                        Scale(df[k].s[c], ColMin(df, c), ColMax(df, c))]
                ELSE IF f = "RUL" /\ ~df[k].RUL.na
                THEN Scale(df[k].RUL.n, lo, hi)
                ELSE df[k][f]]]

\* df[columns[2:]] = (df[columns[2:]] - df[columns[2:]].min() + eps)
\*                   / (df[columns[2:]].max() - df[columns[2:]].min() + eps)
\* The assignment writes the channel columns and no other column.
Normalize(df) ==
    [k \in 1..Len(df) |->
        [df[k] EXCEPT !.s =
            [c \in Channels |->
                Scale(df[k].s[c], ColMin(df, c), ColMax(df, c))]]]

\* the keys of a groupby, in sorted order
RECURSIVE SortedSeq(_)
SortedSeq(S) ==
    IF S = {} THEN <<>>
    ELSE LET lo == CHOOSE x \in S : \A y \in S : x <= y
         IN  <<lo>> \o SortedSeq(S \ {lo})

\* GroupMax, were the maximum taken over the rows of every run
GroupMaxAnyRun(df, id) ==
    LET m[k \in 0..Len(df)] ==
            IF k = 0 THEN 0
            ELSE IF df[k].cycle > m[k - 1] THEN df[k].cycle ELSE m[k - 1]
    IN  m[Len(df)]

\* GroupMax, were the run's last row taken for its largest cycle
GroupMaxLastRow(df, id) ==
    LET m[k \in 0..Len(df)] ==
            IF k = 0 THEN 0
            ELSE IF df[k].id = id THEN df[k].cycle ELSE m[k - 1]
    IN  m[Len(df)]

\* the largest cycle among the rows of df whose id is id
GroupMax(df, id) ==
    LET m[k \in 0..Len(df)] ==
            IF k = 0 THEN 0
            ELSE IF df[k].id = id /\ df[k].cycle > m[k - 1]
                 THEN df[k].cycle ELSE m[k - 1]
    IN  m[Len(df)]

\* GroupByMaxCycle, were the frame grouped by id and cycle
GroupByIdAndCycle(df) ==
    LET keys == {<<df[k].id, df[k].cycle>> : k \in 1..Len(df)}
        ids == SortedSeq({x[1] : x \in keys})
        RECURSIVE Groups(_)
        Groups(q) ==
            IF q = <<>> THEN <<>>
            ELSE LET cs == SortedSeq({x[2] : x \in {y \in keys : y[1] = Head(q)}})
                 IN  [k \in 1..Len(cs) |-> [id |-> Head(q), max |-> Num(cs[k])]]
                     \o Groups(Tail(q))
    IN  Groups(ids)

\* rul = pd.DataFrame(df.groupby('id')['cycle'].max()).reset_index()
\* rul.columns = ['id', 'max']
GroupByMaxCycle(df) ==
    LET ids == SortedSeq({df[k].id : k \in 1..Len(df)})
    IN  [k \in 1..Len(ids) |-> [id |-> ids[k], max |-> Num(GroupMax(df, ids[k]))]]

\* left.merge(right, how='left') on left[lkey] = right[rkey], bringing in
\* right's column col: the left rows in their order, one output row per
\* matching right row, and one with a missing value where none matches
RECURSIVE MergeLeft(_, _, _, _, _)
MergeLeft(left, right, lkey, rkey, col) ==
    IF left = <<>> THEN <<>>
    ELSE LET row == Head(left)
             hits == SelectSeq(right, LAMBDA r : r[rkey] = row[lkey])
             out == IF hits = <<>>
                    THEN <<row @@ (col :> NaN)>>
                    ELSE [k \in 1..Len(hits) |-> row @@ (col :> hits[k][col])]
         IN  out \o MergeLeft(Tail(left), right, lkey, rkey, col)

\* df.drop(cols, axis=1)
DropColumns(df, cols) ==
    [k \in 1..Len(df) |-> [f \in (DOMAIN df[k]) \ cols |-> df[k][f]]]

\* AssignTrainRUL, were the operands exchanged
AssignTrainRULReversed(df) ==
    [k \in 1..Len(df) |->
        df[k] @@ ("RUL" :> Sub(Num(df[k].cycle), df[k].max))]

\* df['RUL'] = df['max'] - df['cycle']
AssignTrainRUL(df) ==
    [k \in 1..Len(df) |->
        df[k] @@ ("RUL" :> Sub(df[k].max, Num(df[k].cycle)))]

\* the body of the train cell's second loop
TrainLabel(df) ==
    LET rul == GroupByMaxCycle(df)
        merged == MergeLeft(df, rul, "id", "id", "max")
    IN  DropColumns(AssignTrainRUL(merged), {"max"})

\* pd.read_csv of a RUL file, df_rul.drop(df_rul.columns[1]): one column,
\* under the default index 0, 1, 2, ...
ReadRul(f) ==
    [k \in 1..Len(f.rows) |-> [index |-> k - 1, RUL_end |-> Num(f.rows[k])]]

\* ShiftIndex, were the index left to start at 0
ShiftIndexNone(df_rul) == df_rul

\* df_rul.index += 1
ShiftIndex(df_rul) ==
    [k \in 1..Len(df_rul) |-> [df_rul[k] EXCEPT !.index = @ + 1]]

\* df['RUL'] = df['max'] + df['RUL_end'] - df['cycle']
AssignTestRUL(df) ==
    [k \in 1..Len(df) |->
        df[k] @@ ("RUL" :> Sub(Add(df[k].max, df[k].RUL_end), Num(df[k].cycle)))]

\* the test cell's labeling: both merges, the RUL column, the drop
TestLabel(df, df_rul) ==
    LET joined == MergeLeft(df, df_rul, "id", "index", "RUL_end")
        rul == GroupByMaxCycle(joined)
        merged == MergeLeft(joined, rul, "id", "id", "max")
    IN  DropColumns(AssignTestRUL(merged), {"max", "RUL_end"})

\* pd.read_csv and df.drop(df.columns[[26, 27]]): the exception raised, if any
LoadError(f) ==
    IF f.rows = <<>> THEN "EmptyDataError"
    ELSE IF f.cols < RawCols THEN "IndexError"
    ELSE "none"

\* pd.read_csv and df_rul.drop(df_rul.columns[1]) of a RUL file
LoadRulError(r) ==
    IF r.rows = <<>> THEN "EmptyDataError"
    ELSE IF r.cols < RulCols THEN "IndexError"
    ELSE "none"

\* df.columns = columns of a frame with ncols columns
RenameError(ncols, names) ==
    IF ncols # names THEN "ValueError" ELSE "none"

\* the first exception of one pass of the train cell's first loop
TrainError(f) ==
    IF LoadError(f) # "none" THEN LoadError(f)
    ELSE RenameError(f.cols - 2, NumColumns)

\* the first exception of one pass of the test cell's loop
TestError(f, r) ==
    IF LoadError(f) # "none" THEN LoadError(f)
    ELSE IF LoadRulError(r) # "none" THEN LoadRulError(r)
    ELSE RenameError((f.cols - 2) + (r.cols - 1), NumColumns + 1)

----------------------------------------------------------------------------
(* The data folder. *)

\* a parsed line of a data file: id, cycle, the reading a of setting1 and
\* the reading b of s1
Row(id, cycle, a, b) ==
    [id |-> id, cycle |-> cycle, s |-> [c \in Channels |-> IF c = "s1" THEN b ELSE a]]

\* the content of the files that do not vary: one run of three cycles
BaseRows == <<Row(1, 1, 0, 2), Row(1, 2, 2, 2), Row(1, 3, 1, 2)>>

BaseData == [cols |-> RawCols, rows |-> BaseRows]

BaseRul == [cols |-> RulCols, rows |-> <<4>>]

RawRows == [id : Ids, cycle : Cycles, s : ChannelRows]

Tables == UNION {[1..n -> RawRows] : n \in 1..MaxRows}

GoodDataFiles == {[cols |-> RawCols, rows |-> t] : t \in Tables}

\* files the cells cannot load: empty, without the two trailing blanks,
\* with a column too many
BadDataFiles ==
    {[cols |-> RawCols, rows |-> <<>>],
     [cols |-> RawCols - 2, rows |-> BaseRows],
     [cols |-> RawCols + 1, rows |-> BaseRows]}

\* RUL files of one line up to as many lines as there are run ids
GoodRulFiles ==
    {[cols |-> RulCols, rows |-> r] :
        r \in UNION {[1..n -> RulValues] : n \in 1..Cardinality(Ids)}}

\* RUL files the test cell cannot load: empty, without the trailing blank
BadRulFiles ==
    {[cols |-> RulCols, rows |-> <<>>],
     [cols |-> RulCols - 1, rows |-> <<4>>]}

\* the folder in which variant v holds the given files and every other
\* variant the base content
Folder(v, tr, te, ru) ==
    [train |-> [j \in 1..NumDatasets |-> IF j = v THEN tr ELSE BaseData],
     test |-> [j \in 1..NumDatasets |-> IF j = v THEN te ELSE BaseData],
     RUL |-> [j \in 1..NumDatasets |-> IF j = v THEN ru ELSE BaseRul]]

\* the folders the model starts from.  In one variant of VaryingVariants
\* the train file varies, or the test file and the RUL file vary; or one
\* file of any one variant cannot be loaded
DataFolders ==
    {Folder(v, tr, BaseData, BaseRul) : v \in VaryingVariants, tr \in GoodDataFiles}
    \cup {Folder(v, BaseData, te, ru) :
            v \in VaryingVariants, te \in GoodDataFiles, ru \in GoodRulFiles}
    \cup {Folder(v, tr, BaseData, BaseRul) : v \in 1..NumDatasets, tr \in BadDataFiles}
    \cup {Folder(v, BaseData, te, BaseRul) : v \in 1..NumDatasets, te \in BadDataFiles}
    \cup {Folder(v, BaseData, BaseData, ru) : v \in 1..NumDatasets, ru \in BadRulFiles}

----------------------------------------------------------------------------
(* The notebook. *)

Init ==
    /\ files \in DataFolders
    /\ pc = "train_norm"
    /\ i = 1
    /\ train_df = <<>>
    /\ test_df = <<>>
    /\ err = NoError

\* one pass of "for i in range(1,5)" of the train cell
TrainNormalizeStep ==
    /\ pc = "train_norm"
    /\ TrainError(files.train[i]) = "none"
    /\ train_df' = Append(train_df, Normalize(files.train[i].rows))
    /\ IF i < NumDatasets
       THEN i' = i + 1 /\ pc' = pc
       ELSE i' = 1 /\ pc' = "train_rul"
    /\ UNCHANGED <<files, test_df, err>>

\* the pass raises: nothing catches it, the run ends
TrainNormalizeRaise ==
    /\ pc = "train_norm"
    /\ TrainError(files.train[i]) # "none"
    /\ err' = [kind |-> TrainError(files.train[i]), cell |-> "train", variant |-> i]
    /\ pc' = "aborted"
    /\ UNCHANGED <<files, i, train_df, test_df>>

\* one pass of "for i, df in enumerate(train_df)"
TrainRULStep ==
    /\ pc = "train_rul"
    /\ train_df' = [train_df EXCEPT ![i] = TrainLabel(@)]
    /\ IF i < Len(train_df)
       THEN i' = i + 1 /\ pc' = pc
       ELSE i' = 1 /\ pc' = "test"
    /\ UNCHANGED <<files, test_df, err>>

\* one pass of "for i in range(1,5)" of the test cell
TestStep ==
    /\ pc = "test"
    /\ TestError(files.test[i], files.RUL[i]) = "none"
    /\ LET df_rul == ShiftIndex(ReadRul(files.RUL[i]))
           df == TestLabel(files.test[i].rows, df_rul)
       IN  test_df' = Append(test_df, Normalize(df))
    /\ IF i < NumDatasets
       THEN i' = i + 1 /\ pc' = pc
       ELSE i' = i /\ pc' = "done"
    /\ UNCHANGED <<files, train_df, err>>

TestRaise ==
    /\ pc = "test"
    /\ TestError(files.test[i], files.RUL[i]) # "none"
    /\ err' = [kind |-> TestError(files.test[i], files.RUL[i]),
               cell |-> "test", variant |-> i]
    /\ pc' = "aborted"
    /\ UNCHANGED <<files, i, train_df, test_df>>

Next ==
    \/ TrainNormalizeStep
    \/ TrainNormalizeRaise
    \/ TrainRULStep
    \/ TestStep
    \/ TestRaise

Spec == Init /\ [][Next]_vars

----------------------------------------------------------------------------
(* What the claims speak of. *)

SetMax(S) == CHOOSE x \in S : \A y \in S : y <= x

SetMin(S) == CHOOSE x \in S : \A y \in S : x <= y

\* the cycles recorded for run id in the rows of a file
RunCycles(rows, id) == {rows[m].cycle : m \in {n \in 1..Len(rows) : rows[n].id = id}}

\* the second loop of the train cell has labeled train_df[j]
TrainLabeled(j) ==
    /\ j \in 1..Len(train_df)
    /\ \/ pc = "train_rul" /\ j < i
       \/ pc \in {"test", "done"}
       \/ pc = "aborted" /\ err.cell = "test"

\* the run has come to its end, or an exception has ended it
RunEnded == pc \in {"done", "aborted"}

\* the train tables that are labeled, the test tables (labeled when appended)
LabeledTrain == {j \in 1..NumDatasets : TrainLabeled(j)}

LabeledTest == 1..Len(test_df)

\* C1: every record of a labeled train table carries RUL = M - cycle, M the
\* largest cycle among the records of the same file with the same run id
C1_TrainRUL ==
    \A j \in LabeledTrain :
        LET raw == files.train[j].rows
            out == train_df[j]
        IN  \A k \in 1..Len(out) :
                out[k].RUL = Num(SetMax(RunCycles(raw, out[k].id)) - out[k].cycle)

\* a labeled train table with two runs, where the run that ends first has
\* RUL 0 at a cycle below the table's largest cycle
C1_Witness ==
    \E j \in LabeledTrain :
        \E k, m \in 1..Len(train_df[j]) :
            /\ train_df[j][k].id # train_df[j][m].id
            /\ train_df[j][k].cycle < train_df[j][m].cycle
            /\ train_df[j][k].RUL = Num(0)

\* C2: every record of a test table whose run id k is a line number of the
\* RUL file carries RUL = M + T - cycle, M the largest cycle of run k in the
\* test file and T the value on line k of the RUL file
C2_TestRUL ==
    \A j \in LabeledTest :
        LET raw == files.test[j].rows
            T == files.RUL[j].rows
            out == test_df[j]
        IN  \A k \in 1..Len(out) :
                out[k].id \in 1..Len(T) =>
                    out[k].RUL =
                        Num(SetMax(RunCycles(raw, out[k].id)) + T[out[k].id] - out[k].cycle)

\* a test table with the runs 1 and 2, whose RUL file holds different
\* values on the lines 1 and 2
C2_Witness ==
    \E j \in LabeledTest :
        LET T == files.RUL[j].rows
            out == test_df[j]
        IN  /\ Len(T) >= 2 /\ T[1] # T[2]
            /\ \E k, m \in 1..Len(out) :
                    /\ out[k].id = 1 /\ out[m].id = 2
                    /\ out[k].cycle = out[m].cycle
                    /\ out[k].RUL = Num(T[1]) /\ out[m].RUL = Num(T[2])

\* the run ids of variant j's test file that are no line number of its RUL file
MissingRul(j) ==
    {files.test[j].rows[k].id : k \in 1..Len(files.test[j].rows)}
        \ (1..Len(files.RUL[j].rows))

\* the test cell's loop is past variant j, or ended in it
TestReached(j) ==
    \/ pc = "test" /\ i > j
    \/ pc = "done"
    \/ pc = "aborted" /\ err.cell = "test" /\ err.variant >= j

\* C3: once the test cell has come to a variant whose files load and whose
\* test file holds a run id without a line in the RUL file, the run has
\* failed in that variant with a MissingRulReferenceError, and no table of
\* the variant is in test_df
C3_MissingRulFails ==
    \A j \in 1..NumDatasets :
        (/\ TestReached(j)
         /\ TestError(files.test[j], files.RUL[j]) = "none"
         /\ MissingRul(j) # {})
        => /\ pc = "aborted"
           /\ err.kind = "MissingRulReferenceError"
           /\ err.variant = j
           /\ Len(test_df) < j

\* the number of variants among 1..n whose files load
RECURSIVE Loadable(_, _)
Loadable(Ok(_), n) ==
    IF n = 0 THEN 0 ELSE Loadable(Ok, n - 1) + (IF Ok(n) THEN 1 ELSE 0)

TrainOk(j) == TrainError(files.train[j]) = "none"

TestOk(j) == TestError(files.test[j], files.RUL[j]) = "none"

\* C4: when the run has ended, a labeled train table has been produced for
\* every variant whose train file loads and a test table for every variant
\* whose test files load, whatever happened to the other variants
C4_FailureIsolated ==
    RunEnded =>
        /\ Len(train_df) = Loadable(TrainOk, NumDatasets)
        /\ \A j \in 1..Len(train_df) : \A k \in 1..Len(train_df[j]) :
                "RUL" \in DOMAIN train_df[j][k]
        /\ Len(test_df) = Loadable(TestOk, NumDatasets)

\* C5: in a labeled train table no label is missing or negative, the labels
\* of a run do not rise with the cycle, and the label is 0 exactly at the
\* run's largest cycle; in a test table the label at a run's largest cycle
\* is the value on the run's line of the RUL file
C5_RULShape ==
    /\ \A j \in LabeledTrain :
            LET raw == files.train[j].rows
                out == train_df[j]
            IN  \A a \in 1..Len(out) :
                    /\ ~out[a].RUL.na /\ out[a].RUL.d = 1 /\ out[a].RUL.n >= 0
                    /\ out[a].RUL.n = 0
                            <=> out[a].cycle = SetMax(RunCycles(raw, out[a].id))
                    /\ \A b \in 1..Len(out) :
                            (out[a].id = out[b].id /\ out[a].cycle <= out[b].cycle)
                                => out[a].RUL.n >= out[b].RUL.n
    /\ \A j \in LabeledTest :
            LET raw == files.test[j].rows
                T == files.RUL[j].rows
                out == test_df[j]
            IN  \A a \in 1..Len(out) :
                    (/\ out[a].id \in 1..Len(T)
                     /\ out[a].cycle = SetMax(RunCycles(raw, out[a].id)))
                        => out[a].RUL = Num(T[out[a].id])

\* a labeled train table whose run has two cycles, labeled 1 and 0, next to
\* a test table whose run ends on a label above 0
C5_Witness ==
    /\ \E j \in LabeledTrain : \E a, b \in 1..Len(train_df[j]) :
            /\ files.train[j] # BaseData
            /\ train_df[j][a].id = train_df[j][b].id
            /\ train_df[j][a].cycle < train_df[j][b].cycle
            /\ train_df[j][a].RUL = Num(1) /\ train_df[j][b].RUL = Num(0)
    /\ \E j \in LabeledTest : \E a \in 1..Len(test_df[j]) :
            /\ test_df[j][a].cycle = SetMax(RunCycles(files.test[j].rows, test_df[j][a].id))
            /\ ~test_df[j][a].RUL.na /\ test_df[j][a].RUL.n > 0

\* the readings of channel c in the rows of a file
Readings(rows, c) == {rows[m].s[c] : m \in 1..Len(rows)}

\* q1 <= q2, for quotients with positive denominators
Leq(q1, q2) ==
    IF q1.d = q2.d THEN q1.n <= q2.n ELSE q1.n * q2.d <= q2.n * q1.d

\* C6 of one table: out holds, row by row and channel by channel, the
\* quotient (v - min + eps) / (max - min + eps) of the file's reading v,
\* min and max taken over that channel of that file; the quotient lies in
\* [0, 1], is 1 where v is the maximum and least where v is the minimum
NormalizedFrom(raw, out) ==
    /\ Len(out) = Len(raw)
    /\ \A k \in 1..Len(out) : \A c \in Channels :
            LET v == raw[k].s[c]
                lo == SetMin(Readings(raw, c))
                hi == SetMax(Readings(raw, c))
                q == out[k].s[c]
            IN  /\ ~q.na
                /\ q.d = (hi - lo) * EpsInv + 1
                /\ q.n = (v - lo) * EpsInv + 1
                /\ q.d > 0 /\ 0 <= q.n /\ q.n <= q.d
                /\ v = hi => q.n = q.d
                /\ v = lo => \A m \in 1..Len(out) : Leq(q, out[m].s[c])

\* C6: every table of train_df and of test_df is normalized from its own
\* file, with the statistics of that file alone
C6_NormalizedRange ==
    /\ \A j \in 1..Len(train_df) : NormalizedFrom(files.train[j].rows, train_df[j])
    /\ \A j \in 1..Len(test_df) : NormalizedFrom(files.test[j].rows, test_df[j])

\* a file whose two channels differ in their minimum and in their maximum,
\* one of them with distinct readings, normalized in train_df and one such
\* in test_df, beside the base tables with their readings 0, 1 and 2
SpreadChannels(rows) ==
    /\ rows # BaseRows
    /\ SetMin(Readings(rows, "setting1")) < SetMax(Readings(rows, "setting1"))
    /\ SetMin(Readings(rows, "s1")) > SetMin(Readings(rows, "setting1"))

C6_Witness ==
    /\ Len(test_df) = NumDatasets
    /\ \E j \in 1..NumDatasets : \E k \in 1..Len(test_df[j]) :
            /\ SpreadChannels(files.test[j].rows)
            /\ test_df[j][k].s["setting1"] = Quot(1, EpsInv + 1)
    /\ \E j \in 1..NumDatasets : \E k \in 1..Len(train_df[j]) :
            train_df[j][k].s["setting1"] = Quot(EpsInv + 1, 2 * EpsInv + 1)

\* C7 of one table: a channel whose readings are all equal holds eps / eps,
\* which is 1, in every row
DegenerateIsOne(raw, out) ==
    \A c \in Channels :
        Cardinality(Readings(raw, c)) = 1 =>
            \A k \in 1..Len(out) :
                /\ ~out[k].s[c].na
                /\ out[k].s[c].d > 0
                /\ out[k].s[c].n = out[k].s[c].d

\* C7: in every table of train_df and of test_df
C7_DegenerateChannel ==
    /\ \A j \in 1..Len(train_df) : DegenerateIsOne(files.train[j].rows, train_df[j])
    /\ \A j \in 1..Len(test_df) : DegenerateIsOne(files.test[j].rows, test_df[j])

\* a table of two rows or more with a channel that is constant and not 0,
\* normalized to 1 in every row, while its other channel is not constant
C7_Witness ==
    \E j \in 1..Len(test_df) :
        LET raw == files.test[j].rows
        IN  /\ raw # BaseRows /\ Len(raw) >= 2
            /\ Readings(raw, "s1") = {1}
            /\ Cardinality(Readings(raw, "setting1")) = 2
            /\ \A k \in 1..Len(test_df[j]) : test_df[j][k].s["s1"] = Quot(1, 1)

\* C8 of one table: as many rows as the file, each with the id and the
\* cycle of the file's row at its place
SameRecords(raw, out) ==
    /\ Len(out) = Len(raw)
    /\ \A k \in 1..Len(out) :
            out[k].id = raw[k].id /\ out[k].cycle = raw[k].cycle

\* C8: in every labeled table of train_df and of test_df
C8_RecordsPreserved ==
    /\ \A j \in LabeledTrain : SameRecords(files.train[j].rows, train_df[j])
    /\ \A j \in LabeledTest : SameRecords(files.test[j].rows, test_df[j])

\* rows 1 and 2 of the file are of one run at one cycle
RepeatedCycle(rows) ==
    /\ Len(rows) >= 2
    /\ rows[1].id = rows[2].id /\ rows[1].cycle = rows[2].cycle

\* a test table, which both joins have made, of a file that repeats a cycle
\* of run 2 and has no other run, beside the labeled train tables
C8_Witness ==
    /\ LabeledTrain = 1..NumDatasets
    /\ \E j \in LabeledTest :
            /\ RepeatedCycle(files.test[j].rows)
            /\ files.test[j].rows[1].id = 2
            /\ Len(files.RUL[j].rows) = 2
            /\ Len(test_df[j]) = Len(files.test[j].rows)

\* the rows of a file in the order p
Permuted(rows, p) == [k \in 1..Len(rows) |-> rows[p[k]]]

\* the records of a table, each with the number of its occurrences
SeqBag(seq) ==
    [x \in {seq[k] : k \in 1..Len(seq)} |-> Cardinality({k \in 1..Len(seq) : seq[k] = x})]

\* C9: the records of every labeled table the run ends with are those the
\* cell computes from the file's rows in any other order
C9_OrderIndependent ==
    RunEnded =>
        /\ \A j \in LabeledTrain :
                LET raw == files.train[j].rows
                IN  \A p \in Permutations(1..Len(raw)) :
                        SeqBag(TrainLabel(Normalize(Permuted(raw, p))))
                            = SeqBag(train_df[j])
        /\ \A j \in LabeledTest :
                LET raw == files.test[j].rows
                    df_rul == ShiftIndex(ReadRul(files.RUL[j]))
                IN  \A p \in Permutations(1..Len(raw)) :
                        SeqBag(Normalize(TestLabel(Permuted(raw, p), df_rul)))
                            = SeqBag(test_df[j])

\* a run's rows stand in the file with the later cycle first
Unsorted(rows) ==
    \E k, m \in 1..Len(rows) :
        k < m /\ rows[k].id = rows[m].id /\ rows[k].cycle > rows[m].cycle

\* the run has ended with a test table of a file that is not sorted by
\* cycle, with its labels
C9_Witness ==
    /\ RunEnded
    /\ LabeledTrain = 1..NumDatasets
    /\ \E j \in LabeledTest :
            /\ Unsorted(files.test[j].rows)
            /\ ~test_df[j][1].RUL.na
            /\ test_df[j][1].RUL.n < test_df[j][2].RUL.n

\* the columns of a row other than the channels
Keys(row) == [f \in (DOMAIN row) \ {"s"} |-> row[f]]

\* C10: a test table (labeled, then normalized) is the table that
\* normalizing and then labeling yields, and it has the id, cycle and RUL
\* of the labeled rows before they were normalized; a labeled train table
\* (normalized, then labeled) is the table that labeling and then
\* normalizing yields
C10_NormalizeLabelCommute ==
    /\ \A j \in LabeledTest :
            LET raw == files.test[j].rows
                df_rul == ShiftIndex(ReadRul(files.RUL[j]))
                labeled == TestLabel(raw, df_rul)
            IN  /\ test_df[j] = TestLabel(Normalize(raw), df_rul)
                /\ Len(test_df[j]) = Len(labeled)
                /\ \A k \in 1..Len(labeled) : Keys(test_df[j][k]) = Keys(labeled[k])
    /\ \A j \in LabeledTrain :
            train_df[j] = Normalize(TrainLabel(files.train[j].rows))

\* a test table of a file with different readings in a channel and two
\* cycles of a run, whose rows carry different labels
C10_Witness ==
    \E j \in LabeledTest :
        LET raw == files.test[j].rows
        IN  /\ raw # BaseRows /\ Len(raw) >= 2
            /\ raw[1].id = raw[2].id /\ raw[1].cycle # raw[2].cycle
            /\ raw[1].s["s1"] # raw[2].s["s1"]
            /\ ~test_df[j][1].RUL.na
            /\ test_df[j][1].RUL # test_df[j][2].RUL
            /\ test_df[j][1].s["s1"] # test_df[j][2].s["s1"]

====
